---- MODULE Spec2Model ----
(***************************************************************************)
(* HarvestFlow: the semantic clustering pipeline of src/src/cluster/       *)
(* topics.ts (cluster) as a state machine.  A call of cluster ingests the  *)
(* non-tool messages into the process-wide MemStore, derives the seeds,    *)
(* queries the store once per seed and resolves the overlapping hits into  *)
(* disjoint topics.  Every await of the code is a step boundary, so calls  *)
(* made in the same process interleave at their awaits.                    *)
(***************************************************************************)
EXTENDS Integers, Sequences, FiniteSets, TLC

VARIABLES
    store,      \* MemStore: the records, in insertion order
    minted,     \* the values randomUUID() has returned so far
    messages,   \* messages[r]: the argument of call r
    pc,         \* pc[r]: where call r stands
    relevant,   \* relevant[r]: the local `relevant`
    ups,        \* ups[r]: the upserts call r has completed, in order
    seeds,      \* seeds[r]: the local `seeds`
    hits,       \* hits[r]: the hit-id list each completed query returned
    topics,     \* topics[r]: the local `topics` (before the final filter)
    ret,        \* ret[r]: the value call r returned
    alone,      \* alone[r]: call r started on an empty store and no other
                \* call has been in progress since
    fault,      \* fault[r]: the operation of call r that threw, if any
    mpc,        \* where main of src/index.ts stands
    flows,      \* the local `flows` of main
    exitCode,   \* the code main's process exited with (read when mpc = "exited")
    cur,        \* the position of the loop of main in `flows`
    log,        \* the calls main has made for their effect and that returned, in order
    threw,      \* the step of main that threw, if any
    facts,      \* audit: what the scans of the audited repository find
    flags,      \* audit: the command line flags
    apc,        \* audit: where main of the audit script stands
    results,    \* audit: the AuditResults
    written,    \* audit: PRODUCTION_READINESS_AUDIT.md has been written
    auditExit,  \* audit: the exit code (read when apc = "exited")
    previous    \* audit: the AuditResults of the run before this one, if any

clusterVars == <<store, minted, messages, pc, relevant, ups, seeds, hits, topics, ret, alone>>

mainVars == <<fault, mpc, flows, exitCode, cur, log, threw>>

auditVars == <<facts, flags, apc, results, written, auditExit, previous>>

vars == <<clusterVars, mainVars, auditVars>>

----------------------------------------------------------------------------
(* Bounds of the model *)

\* longest message list of the exhaustively enumerated inputs
MaxLen == 2
\* longest message list of the two interleaved calls
MaxLenTwo == 1

\* the longest enumerated input of the pipeline with failures
MaxLenMain == 1
\* longest message list of the seed-cap inputs
MaxLong == 14
\* longest first line of the title inputs
MaxText == 82
\* how many values randomUUID() can return in one behaviour
MaxUuid == 3

(* Program constants *)

\* .slice(0, 12): the seed cap
SeedCap == 12
\* MemStore.query(..., 50)
K == 50
\* .slice(0, 80): the title length
TitleLen == 80

----------------------------------------------------------------------------
(* Values *)

\* an id that is absent (JavaScript undefined), and the empty string
Undefined == "undefined"
EmptyId == ""

\* a text or content field that is absent
NoText == <<Undefined>>

Runs == {1, 2}

Roles == {"user", "assistant", "tool"}

NL == "\n"

\* texts, as character sequences
TEmpty == << >>
TA == <<"a">>
TB == <<"b">>
TAB == <<"a", "b">>
TNLA == <<NL, "a">>
TFix == <<"F", "i", "x", " ", "l", "o", "g", "i", "n", " ", "b", "u", "g">>
THere == <<"H", "e", "r", "e", "'", "s", " ", "a", " ", "f", "i", "x">>
TAgain == <<"F", "i", "x", " ", "l", "o", "g", "i", "n", " ", "b", "u", "g", " ", "a", "g", "a", "i", "n">>

Msg(i, r, t, c) == [id |-> i, role |-> r, text |-> t, content |-> c]

\* the messages the small inputs are built from
Msgs ==
    { Msg(i, r, t, NoText) : i \in {Undefined, "1", "2"}, r \in Roles, t \in {TA, TEmpty} }
    \cup { Msg("2", "user", TNLA, NoText),
           Msg("1", "user", NoText, TB),
           Msg(EmptyId, "user", TB, NoText),
           Msg("3", "assistant", TAB, NoText) }

RECURSIVE SeqsUpTo(_, _)
SeqsUpTo(S, n) ==
    IF n = 0 THEN { << >> }
    ELSE LET shorter == SeqsUpTo(S, n - 1)
         IN  shorter \cup { Append(s, x) : s \in { t \in shorter : Len(t) = n - 1 }, x \in S }

\* the three-message scenario
Scenario ==
    << Msg("1", "user", TFix, NoText),
       Msg("2", "assistant", THere, NoText),
       Msg("3", "user", TAgain, NoText) >>

Inputs == SeqsUpTo(Msgs, MaxLen) \cup {Scenario}

----------------------------------------------------------------------------
(* Sequence helpers *)

Range(s) == { s[i] : i \in 1..Len(s) }

RECURSIVE Pick(_, _, _)
\* Array.filter: the elements of s at the positions of I (those that pass the
\* test), from position i on, in order
Pick(s, I, i) ==
    IF i > Len(s) THEN << >>
    ELSE (IF i \in I THEN <<s[i]>> ELSE << >>) \o Pick(s, I, i + 1)

\* Array.slice(0, n) and String.slice(0, n)
Slice(s, n) == SubSeq(s, 1, IF Len(s) < n THEN Len(s) ELSE n)

RECURSIVE Dedup(_, _)
\* Array.from(new Set(s)): the first occurrence of each value, in order;
\* Dedup(s, seen) skips the values of `seen`
Dedup(s, seen) ==
    IF s = << >> THEN << >>
    ELSE IF Head(s) \in seen THEN Dedup(Tail(s), seen)
         ELSE <<Head(s)>> \o Dedup(Tail(s), seen \cup {Head(s)})

Min(S) == CHOOSE x \in S : \A y \in S : x <= y

----------------------------------------------------------------------------
(* The embedder (semantic/localEmbed): a hashed bag of characters *)

\* the characters that hash to each component; white space is not counted
Buckets ==
    << {"a", "F", "o", "H", "s"},
       {"b", "i", "g", "e", "f"},
       {"x", "l", "n", "u", "r", "'"} >>

Count(B, t) == Cardinality({ i \in 1..Len(t) : t[i] \in B })

RECURSIVE EmbedTo(_, _)
EmbedTo(t, d) == IF d = 0 THEN << >> ELSE Append(EmbedTo(t, d - 1), Count(Buckets[d], t))

\* embed(text): one count per component
embed(t) == EmbedTo(t, Len(Buckets))

RECURSIVE DotTo(_, _, _)
DotTo(u, v, d) == IF d = 0 THEN 0 ELSE u[d] * v[d] + DotTo(u, v, d - 1)

Dot(u, v) == DotTo(u, v, Len(Buckets))

\* the square of the cosine of u and v, as a fraction <<numerator, denominator>>;
\* the components are never negative, so the squares order as the cosines do
Cosine2(u, v) ==
    IF Dot(u, u) = 0 \/ Dot(v, v) = 0 THEN <<0, 1>>
    ELSE <<Dot(u, v) * Dot(u, v), Dot(u, u) * Dot(v, v)>>

\* fraction x is greater than fraction y
Greater(x, y) == x[1] * y[2] > y[1] * x[2]

----------------------------------------------------------------------------
(* The vector index (semantic/memStore) *)

Record(i, v, m) == [id |-> i, vec |-> v, meta |-> m]

\* MemStore.upsert: overwrite the record of the id, or insert it last
StoreUpsert(st, i, v, m) ==
    IF \E n \in 1..Len(st) : st[n].id = i
    THEN [ n \in 1..Len(st) |-> IF st[n].id = i THEN Record(i, v, m) ELSE st[n] ]
    ELSE Append(st, Record(i, v, m))

RECURSIVE Scored(_, _, _)
\* the first n records of st with their scores against q, in insertion order
Scored(st, q, n) ==
    IF n = 0 THEN << >>
    ELSE Append(Scored(st, q, n - 1), [id |-> st[n].id, score |-> Cosine2(q, st[n].vec)])

RECURSIVE Insert(_, _)
\* h put into the ranked list s behind every entry whose score is not lower
Insert(s, h) ==
    IF s = << >> THEN <<h>>
    ELSE IF Greater(h.score, Head(s).score) THEN <<h>> \o s
         ELSE <<Head(s)>> \o Insert(Tail(s), h)

RECURSIVE Ranked(_, _)
\* the first n entries of s by descending score, first inserted first
Ranked(s, n) == IF n = 0 THEN << >> ELSE Insert(Ranked(s, n - 1), s[n])

\* MemStore.query: the k nearest records
StoreQuery(st, q, k) ==
    LET s == Scored(st, q, Len(st))
    IN  Slice(Ranked(s, Len(s)), k)

\* the store emptied between runs
StoreReset == << >>

----------------------------------------------------------------------------
(* cluster: the pure parts *)

\* the content field is never read
TextOfTextOnly(m) == IF m.text # NoText THEN m.text ELSE << >>

\* msg.text ?? msg.content ?? ""
TextOf(m) ==
    IF m.text # NoText THEN m.text
    ELSE IF m.content # NoText THEN m.content
    ELSE << >>

\* .split("\n")[0]
FirstLine(t) ==
    LET nls == { i \in 1..Len(t) : t[i] = NL }
    IN  IF nls = {} THEN t ELSE SubSeq(t, 1, Min(nls) - 1)

\* the first line taken whole
TitleUncut(m) == FirstLine(TextOf(m))

\* (m.text ?? m.content ?? "").split("\n")[0]?.slice(0, 80) || ""
Title(m) == Slice(FirstLine(TextOf(m)), TitleLen)

\* a value that || does not replace
Truthy(i) == i \notin {Undefined, EmptyId}

\* the role test misspelt, so that it never excludes a message
IsRelevantAll(m) == m.role # "Tool"

IsRelevant(m) == m.role # "tool"

\* only the user messages are ingested
RelevantUsersOnly(msgs) == Pick(msgs, { i \in 1..Len(msgs) : msgs[i].role = "user" }, 1)

\* messages.filter(m => m.role !== "tool")
Relevant(msgs) == Pick(msgs, { i \in 1..Len(msgs) : IsRelevant(msgs[i]) }, 1)

IsUser(m) == m.role = "user"

Seed(m) == [id |-> m.id, title |-> Title(m)]

HasTitle(sd) == sd.title # << >>

\* the cap applied before the empty titles are dropped
SeedsSliceFirst(msgs) ==
    LET users == Pick(msgs, { i \in 1..Len(msgs) : msgs[i].role = "user" }, 1)
        mapped == [ i \in 1..Len(users) |-> [id |-> users[i].id, title |-> Title(users[i])] ]
        capped == Slice(mapped, SeedCap)
    IN  Pick(capped, { i \in 1..Len(capped) : capped[i].title # << >> }, 1)

\* a seed made up when no user message qualifies
SeedsWithFallback(msgs) ==
    LET users == Pick(msgs, { i \in 1..Len(msgs) : msgs[i].role = "user" }, 1)
        mapped == [ i \in 1..Len(users) |-> [id |-> users[i].id, title |-> Title(users[i])] ]
        titled == Pick(mapped, { i \in 1..Len(mapped) : mapped[i].title # << >> }, 1)
    IN  IF titled = << >> THEN <<[id |-> Undefined, title |-> TA]>> ELSE Slice(titled, SeedCap)

\* messages.filter(user).map(seed).filter(seed => seed.title).slice(0, 12)
SeedsOf(msgs) ==
    LET users == Pick(msgs, { i \in 1..Len(msgs) : IsUser(msgs[i]) }, 1)
        mapped == [ i \in 1..Len(users) |-> Seed(users[i]) ]
        titled == Pick(mapped, { i \in 1..Len(mapped) : HasTitle(mapped[i]) }, 1)
    IN  Slice(titled, SeedCap)

\* the seed's id put behind the hits
CandidatesHitsFirst(sd, hitIds) == Dedup(hitIds \o <<sd.id>>, {})

\* Array.from(new Set([seed.id, ...hits.map(hit => hit.id)]))
Candidates(sd, hitIds) == Dedup(<<sd.id>> \o hitIds, {})

\* the filter without the test of `assigned`
UnassignedNoCheck(ids, assigned) == ids

\* topic.ids.filter(id => { if (assigned.has(id)) return false; assigned.add(id); return true })
Unassigned(ids, assigned) == Dedup(ids, assigned)

RECURSIVE AssignDropEmpty(_, _)
\* the topics that end up empty are left out
AssignDropEmpty(ts, assigned) ==
    IF ts = << >> THEN << >>
    ELSE LET ids == Dedup(Head(ts).ids, assigned)
         IN  (IF ids = << >> THEN << >> ELSE <<[title |-> Head(ts).title, ids |-> ids]>>)
                 \o AssignDropEmpty(Tail(ts), assigned \cup Range(ids))

RECURSIVE AssignLastFirst(_, _)
\* the topics filtered from the last to the first
AssignLastFirst(ts, assigned) ==
    IF ts = << >> THEN << >>
    ELSE LET n == Len(ts)
             ids == Dedup(ts[n].ids, assigned)
         IN  AssignLastFirst(SubSeq(ts, 1, n - 1), assigned \cup Range(ids))
                 \o <<[title |-> ts[n].title, ids |-> ids]>>

RECURSIVE Assign(_, _)
\* topics.map(topic => ({ title, ids: filtered })), with the one `assigned` set
Assign(ts, assigned) ==
    IF ts = << >> THEN << >>
    ELSE LET ids == Unassigned(Head(ts).ids, assigned)
         IN  <<[title |-> Head(ts).title, ids |-> ids]>>
                 \o Assign(Tail(ts), assigned \cup Range(ids))

----------------------------------------------------------------------------
(* cluster: the steps *)

UuidTable == <<"u1", "u2", "u3", "u4", "u5", "u6">>

Uuids == { UuidTable[i] : i \in 1..MaxUuid }

\* randomUUID(): a value never returned before
randomUUID == Uuids \ minted

Active(r) == pc[r] \in {"ingest", "query"}

\* the ingestion loop left one turn early
IngestDoneEarly(r) == Len(ups[r]) + 1 >= Len(relevant[r])

\* the for loop over `relevant` has run to its end
IngestDone(r) == Len(ups[r]) = Len(relevant[r])

\* the for loop over `seeds` has run to its end
QueryDone(r) == Len(topics[r]) = Len(seeds[r])

\* the loop over `relevant` visited from its end
NextMsgReversed(r) == relevant[r][Len(relevant[r]) - Len(ups[r])]

\* for (const msg of relevant): the message of the coming turn
NextMsg(r) == relevant[r][Len(ups[r]) + 1]

\* cluster(messages) is entered: line 7
Call(r) ==
    /\ pc[r] = "idle"
    /\ relevant' = [relevant EXCEPT ![r] = Relevant(messages[r])]
    /\ pc' = [pc EXCEPT ![r] = "ingest"]
    /\ alone' = [ o \in Runs |->
                    IF o = r THEN store = << >> /\ \A x \in Runs \ {r} : ~ Active(x)
                    ELSE alone[o] /\ ~ Active(o) ]
    /\ UNCHANGED <<store, minted, messages, ups, seeds, hits, topics, ret, mainVars, auditVars>>

\* one turn of the ingestion loop: lines 8-14
Upsert(r) ==
    /\ pc[r] = "ingest"
    /\ ~ IngestDone(r)
    /\ LET msg == NextMsg(r)
           text == TextOf(msg)
       IN  \E key \in (IF Truthy(msg.id) THEN {msg.id} ELSE randomUUID) :
             /\ store' = StoreUpsert(store, key, embed(text), [role |-> msg.role, text |-> text])
             /\ minted' = IF Truthy(msg.id) THEN minted ELSE minted \cup {key}
             /\ ups' = [ups EXCEPT ![r] = Append(@, [key |-> key, msg |-> msg])]
    /\ UNCHANGED <<messages, pc, relevant, seeds, hits, topics, ret, alone, mainVars, auditVars>>

\* the seeds are derived once ingestion is over: lines 16-20
Seeds(r) ==
    /\ pc[r] = "ingest"
    /\ IngestDone(r)
    /\ seeds' = [seeds EXCEPT ![r] = SeedsOf(messages[r])]
    /\ pc' = [pc EXCEPT ![r] = "query"]
    /\ UNCHANGED <<store, minted, messages, relevant, ups, hits, topics, ret, alone, mainVars, auditVars>>

\* the seeds visited from the last to the first
QueryFromLast(r) ==
    /\ pc[r] = "query"
    /\ ~ QueryDone(r)
    /\ LET sd == seeds[r][Len(seeds[r]) - Len(topics[r])]
           found == StoreQuery(store, embed(sd.title), K)
           hitIds == [ i \in 1..Len(found) |-> found[i].id ]
       IN  /\ hits' = [hits EXCEPT ![r] = Append(@, hitIds)]
           /\ topics' = [topics EXCEPT ![r] =
                            Append(@, [title |-> sd.title, ids |-> Candidates(sd, hitIds)])]
    /\ UNCHANGED <<store, minted, messages, pc, relevant, ups, seeds, ret, alone, mainVars, auditVars>>

\* the index asked for the nearest record only
QueryTopOne(r) ==
    /\ pc[r] = "query"
    /\ ~ QueryDone(r)
    /\ LET sd == seeds[r][Len(topics[r]) + 1]
           found == StoreQuery(store, embed(sd.title), 1)
           hitIds == [ i \in 1..Len(found) |-> found[i].id ]
       IN  /\ hits' = [hits EXCEPT ![r] = Append(@, hitIds)]
           /\ topics' = [topics EXCEPT ![r] =
                            Append(@, [title |-> sd.title, ids |-> Candidates(sd, hitIds)])]
    /\ UNCHANGED <<store, minted, messages, pc, relevant, ups, seeds, ret, alone, mainVars, auditVars>>

\* one turn of the query loop: lines 23-27
Query(r) ==
    /\ pc[r] = "query"
    /\ ~ QueryDone(r)
    /\ LET sd == seeds[r][Len(topics[r]) + 1]
           found == StoreQuery(store, embed(sd.title), K)
           hitIds == [ i \in 1..Len(found) |-> found[i].id ]
       IN  /\ hits' = [hits EXCEPT ![r] = Append(@, hitIds)]
           /\ topics' = [topics EXCEPT ![r] =
                            Append(@, [title |-> sd.title, ids |-> Candidates(sd, hitIds)])]
    /\ UNCHANGED <<store, minted, messages, pc, relevant, ups, seeds, ret, alone, mainVars, auditVars>>

\* the final filter and the return: lines 29-37
Return(r) ==
    /\ pc[r] = "query"
    /\ QueryDone(r)
    /\ ret' = [ret EXCEPT ![r] = Assign(topics[r], {})]
    /\ pc' = [pc EXCEPT ![r] = "done"]
    /\ UNCHANGED <<store, minted, messages, relevant, ups, seeds, hits, topics, alone, mainVars, auditVars>>

\* the index is reset between runs
Reset ==
    /\ \A r \in Runs : ~ Active(r)
    /\ store # << >>
    /\ store' = StoreReset
    /\ UNCHANGED <<minted, messages, pc, relevant, ups, seeds, hits, topics, ret, alone, mainVars, auditVars>>

\* a thrown error ends the call with the partial topics as its result
ThrowReturnsPartial(r) ==
    /\ Active(r)
    /\ IF pc[r] = "ingest" THEN ~ IngestDone(r) ELSE ~ QueryDone(r)
    /\ \E op \in (IF pc[r] = "ingest" THEN {"embed", "upsert"} ELSE {"embed", "query"}) :
            fault' = [fault EXCEPT ![r] = op]
    /\ pc' = [pc EXCEPT ![r] = "done"]
    /\ ret' = [ret EXCEPT ![r] = Assign(topics[r], {})]
    /\ UNCHANGED <<store, minted, messages, relevant, ups, seeds, hits, topics, alone,
                   mpc, flows, exitCode, cur, log, threw, auditVars>>

\* embed, MemStore.upsert or MemStore.query throws in the coming turn of a
\* loop: the await of line 10 or 24 rejects and with it the call
Throw(r) ==
    /\ Active(r)
    /\ IF pc[r] = "ingest" THEN ~ IngestDone(r) ELSE ~ QueryDone(r)
    /\ \E op \in (IF pc[r] = "ingest" THEN {"embed", "upsert"} ELSE {"embed", "query"}) :
            fault' = [fault EXCEPT ![r] = op]
    /\ pc' = [pc EXCEPT ![r] = "failed"]
    /\ UNCHANGED <<store, minted, messages, relevant, ups, seeds, hits, topics, ret, alone,
                   mpc, flows, exitCode, cur, log, threw, auditVars>>

Next ==
    \/ \E r \in Runs : Call(r)
    \/ \E r \in Runs : Upsert(r)
    \/ \E r \in Runs : Seeds(r)
    \/ \E r \in Runs : Query(r)
    \/ \E r \in Runs : Return(r)
    \/ Reset

----------------------------------------------------------------------------
(* main of src/index.ts: the pipeline around the one call of cluster *)

\* buildFlows (flows/build): one flow per topic, in order, with one node
buildFlows(ts) ==
    [ i \in 1..Len(ts) |->
        [id |-> i, title |-> ts[i].title, nodes |-> <<[msgIds |-> ts[i].ids]>>,
         deliverables |-> << >>] ]

\* const flows = buildFlows(topics): line 12, once cluster has returned
MainFlows ==
    /\ mpc = "cluster"
    /\ pc[1] = "done"
    /\ flows' = buildFlows(ret[1])
    /\ mpc' = "flows"
    /\ UNCHANGED <<clusterVars, fault, exitCode, cur, log, threw, auditVars>>

\* lines 19-22: the messages of a flow, as main hands them to the builders
FlowMsgs(chat, flow) ==
    LET msgIds == IF Len(flow.nodes) > 0 THEN flow.nodes[1].msgIds ELSE << >>
        kept == Pick(chat, { i \in 1..Len(chat) :
                                Truthy(chat[i].id) /\ chat[i].id \in Range(msgIds) }, 1)
    IN  [ i \in 1..Len(kept) |-> [role |-> kept[i].role, text |-> TextOf(kept[i])] ]

\* the deliverables of builders/docs, builders/prompt and builders/code:
\* their kind and what main passes to the builder
buildDocs(title, msgs) == [kind |-> "docs", of |-> <<title, msgs>>]

buildPrompt(title, msgs) == [kind |-> "prompt", of |-> <<title, msgs>>]

buildCode(id) == [kind |-> "code", of |-> <<id>>]

\* flow.deliverables.push(d) on the flow the loop stands at
Push(d) == [flows EXCEPT ![cur].deliverables = Append(@, d)]

\* an entry of `log`: the function called, the id of the flow it was called
\* for (0 for none) and the deliverables the flow it was given held
Called(op, id, ds) == [op |-> op, id |-> id, deliverables |-> ds]

\* the step after the last statement of the loop body: the next flow, or line 34
AfterFlow == IF cur < Len(flows) THEN "docs" ELSE "master"

\* lines 14-16 and the entry of the loop of line 18
MainImports ==
    /\ mpc = "flows"
    /\ cur' = 1
    /\ mpc' = (IF flows = << >> THEN "master" ELSE "docs")
    /\ UNCHANGED <<clusterVars, fault, flows, exitCode, log, threw, auditVars>>

\* line 24
MainDocs ==
    /\ mpc = "docs"
    /\ flows' = Push(buildDocs(flows[cur].title, FlowMsgs(messages[1], flows[cur])))
    /\ mpc' = "prompt"
    /\ UNCHANGED <<clusterVars, fault, exitCode, cur, log, threw, auditVars>>

\* line 25
MainPrompt ==
    /\ mpc = "prompt"
    /\ flows' = Push(buildPrompt(flows[cur].title, FlowMsgs(messages[1], flows[cur])))
    /\ mpc' = "code"
    /\ UNCHANGED <<clusterVars, fault, exitCode, cur, log, threw, auditVars>>

\* line 26
MainCode ==
    /\ mpc = "code"
    /\ flows' = Push(buildCode(flows[cur].id))
    /\ mpc' = "metric"
    /\ UNCHANGED <<clusterVars, fault, exitCode, cur, log, threw, auditVars>>

\* line 28: Metrics.push({ flowId: flow.id, label: "qualityScore", ... })
MainMetric ==
    /\ mpc = "metric"
    /\ log' = Append(log, Called("metric", flows[cur].id, << >>))
    /\ mpc' = "write"
    /\ UNCHANGED <<clusterVars, fault, flows, exitCode, cur, threw, auditVars>>

\* line 30: writeDeliverables(flow)
MainWrite ==
    /\ mpc = "write"
    /\ log' = Append(log, Called("write", flows[cur].id, flows[cur].deliverables))
    /\ mpc' = "zip"
    /\ UNCHANGED <<clusterVars, fault, flows, exitCode, cur, threw, auditVars>>

\* line 31: zipFlow(flow.id), and the loop moves on
MainZip ==
    /\ mpc = "zip"
    /\ log' = Append(log, Called("zip", flows[cur].id, << >>))
    /\ mpc' = AfterFlow
    /\ cur' = cur + 1
    /\ UNCHANGED <<clusterVars, fault, flows, exitCode, threw, auditVars>>

\* lines 34-35: zipMaster() and the closing message; main returns
MainZipMaster ==
    /\ mpc = "master"
    /\ log' = Append(log, Called("zipMaster", 0, << >>))
    /\ mpc' = "done"
    /\ UNCHANGED <<clusterVars, fault, flows, exitCode, cur, threw, auditVars>>

\* the steps of main after buildFlows, each of which may throw
MainSteps == {"flows", "docs", "prompt", "code", "metric", "write", "zip", "master"}

\* a failure inside the loop body is caught there and the loop goes on
MainThrowContinues ==
    /\ mpc \in MainSteps \ {"flows", "master"}
    /\ threw' = mpc
    /\ mpc' = AfterFlow
    /\ cur' = cur + 1
    /\ UNCHANGED <<clusterVars, fault, flows, exitCode, log, auditVars>>

\* an import, a builder, Metrics.push, writeDeliverables, zipFlow or zipMaster
\* throws: nothing in main catches, so the promise of main rejects
MainThrow ==
    /\ mpc \in MainSteps
    /\ threw' = mpc
    /\ mpc' = "failed"
    /\ UNCHANGED <<clusterVars, fault, flows, exitCode, cur, log, auditVars>>

\* main().catch(err => ... process.exit(1)): lines 38-41
MainCatch ==
    /\ \/ mpc = "cluster" /\ pc[1] = "failed"
       \/ mpc = "failed"
    /\ exitCode' = 1
    /\ mpc' = "exited"
    /\ UNCHANGED <<clusterVars, fault, flows, cur, log, threw, auditVars>>

NextMain ==
    \/ Next
    \/ \E r \in Runs : Throw(r)
    \/ MainFlows
    \/ MainImports
    \/ MainDocs
    \/ MainPrompt
    \/ MainCode
    \/ MainMetric
    \/ MainWrite
    \/ MainZip
    \/ MainZipMaster
    \/ MainThrow
    \/ MainCatch

----------------------------------------------------------------------------
(* The production readiness audit (scripts/production_readiness_audit.ts).
   A repository is the set `facts` of what its scans find: the path of each
   file that exists, and for each keyword scan the name of the constant that
   receives its outcome.  The leading mark of a finding is left out of its
   text. *)

\* fs.existsSync(path.join(repoPath, relativePath))
fileExists(f, relativePath) == relativePath \in f

\* false when the file is missing, else whether its content has the text
fileContains(f, relativePath, found) == relativePath \in f /\ found \in f

\* grep over *.ts, *.js, *.json, *.md for one of the patterns
searchCodebase(f, found) == found \in f

\* grep over *.md, *.json for one of the patterns
searchInFiles(f, found) == found \in f

\* false when the directory is missing, else grep inside it
searchInDirectory(f, dir, found) == dir \in f /\ found \in f

\* find . -name for one of the patterns
searchForFiles(f, found) == found \in f

searchForHardcodedSecrets(f) == "hasHardcodedCreds" \in f

searchForCommittedSecrets(f) == "hasCommittedSecrets" \in f

\* findings.push(text) with score += points
Finding(points, text) == [points |-> points, text |-> text]

\* if (ok) { push(pass); score += 1 } else { push(fail) }
Check(ok, pass, fail) == IF ok THEN Finding(1, pass) ELSE Finding(0, fail)

RECURSIVE Points(_, _)
Points(checks, n) == IF n = 0 THEN 0 ELSE checks[n].points + Points(checks, n - 1)

RECURSIVE Texts(_, _)
Texts(checks, n) == IF n = 0 THEN << >> ELSE Append(Texts(checks, n - 1), checks[n].text)

\* return { score, maxScore: 5, findings, reasoning }
CategoryScore(checks) ==
    [score |-> Points(checks, Len(checks)), maxScore |-> 5,
     findings |-> Texts(checks, Len(checks))]

\* BASIC_AUTH and basic-auth hold the pattern auth of line 138 (grep -i)
hasAuth(f) == searchCodebase(f, "hasAuth") \/ searchCodebase(f, "BASIC_AUTH")

hasBasicAuth(f) ==
    fileExists(f, ".env") \/ fileExists(f, ".env.example") \/ searchCodebase(f, "BASIC_AUTH")

auditIdentityAccessControl(f) ==
    CategoryScore(<<
        Check(hasAuth(f), "Authentication patterns found in codebase",
              "No authentication implementation detected"),
        Check(searchCodebase(f, "hasRBAC"), "Role-based access control patterns found",
              "No RBAC implementation detected"),
        Check(~ searchForHardcodedSecrets(f), "No obvious hardcoded credentials found",
              "CRITICAL: Potential hardcoded credentials detected"),
        Check(hasBasicAuth(f), "Basic auth configuration detected",
              "No basic auth configuration found"),
        Check(searchCodebase(f, "hasLeastPrivilege"), "Least privilege patterns found",
              "Least privilege principles not explicitly documented") >>)

\* both parts of the .env handling give three points
auditSecretsConfigThree(f) ==
    LET hasEnvExample == fileExists(f, ".env.example")
        hasEnvInGitignore == fileContains(f, ".gitignore", "hasEnvInGitignore")
    IN  CategoryScore(<<
            IF hasEnvExample /\ hasEnvInGitignore
            THEN Finding(3, ".env.example exists and .env is gitignored")
            ELSE Finding(0, "No .env configuration detected"),
            IF ~ searchForCommittedSecrets(f)
            THEN Finding(2, "No obvious committed secrets detected")
            ELSE Finding(0, "CRITICAL: Potential committed secrets found"),
            Check(fileContains(f, "README.md", "hasConfigDocs"),
                  "Configuration documented in README",
                  "Configuration not documented in README") >>)

auditSecretsConfig(f) ==
    LET hasEnvExample == fileExists(f, ".env.example")
        hasEnvInGitignore == fileContains(f, ".gitignore", "hasEnvInGitignore")
    IN  CategoryScore(<<
            IF hasEnvExample /\ hasEnvInGitignore
            THEN Finding(2, ".env.example exists and .env is gitignored")
            ELSE IF hasEnvExample \/ hasEnvInGitignore
                 THEN Finding(1, "Partial .env configuration (missing .env.example or .gitignore entry)")
                 ELSE Finding(0, "No .env configuration detected"),
            IF ~ searchForCommittedSecrets(f)
            THEN Finding(2, "No obvious committed secrets detected")
            ELSE Finding(0, "CRITICAL: Potential committed secrets found"),
            Check(fileContains(f, "README.md", "hasConfigDocs"),
                  "Configuration documented in README",
                  "Configuration not documented in README") >>)

auditDataSafety(f, handlesPII) ==
    CategoryScore(<<
        Check(searchInFiles(f, "hasDataStorage"), "Data storage configuration found",
              "Data storage not clearly documented"),
        Check(searchCodebase(f, "hasEncryption"), "Encryption patterns found in codebase",
              "No encryption implementation detected"),
        Check(searchInFiles(f, "hasBackup"), "Backup/snapshot mechanisms found",
              "No backup strategy documented"),
        Check(searchInFiles(f, "hasRetention"), "Data retention/cleanup logic found",
              "No data retention policy documented"),
        IF handlesPII
        THEN Check(searchCodebase(f, "hasPIIProtection"), "PII protection patterns found",
                   "CRITICAL: Handles PII but no protection patterns found")
        ELSE Finding(1, "PII handling not applicable") >>)

auditReliability(f) ==
    CategoryScore(<<
        Check(searchCodebase(f, "hasErrorHandling"), "Error handling patterns found",
              "No error handling detected"),
        Check(searchCodebase(f, "hasTimeouts"), "Timeout handling found",
              "No timeout handling detected"),
        Check(searchCodebase(f, "hasRetries"), "Retry logic found", "No retry logic detected"),
        Check(searchCodebase(f, "hasGracefulDegradation"), "Graceful degradation patterns found",
              "No graceful degradation detected"),
        Check(searchCodebase(f, "hasHealthCheck"), "Health check endpoints found",
              "No health check endpoints detected") >>)

auditObservability(f) ==
    CategoryScore(<<
        Check(searchCodebase(f, "hasLogging"), "Logging implementation found",
              "No logging detected"),
        Check(searchCodebase(f, "hasStructuredLogs"), "Structured logging patterns found",
              "No structured logging detected"),
        Check(searchCodebase(f, "hasErrorTracking"), "Error tracking service found",
              "No error tracking service detected"),
        Check(searchCodebase(f, "hasMetrics"), "Metrics collection found",
              "No metrics collection detected"),
        Check(searchCodebase(f, "hasAlerts"), "Alert mechanisms found",
              "No alert mechanisms detected") >>)

hasCIConfig(f) ==
    fileExists(f, ".github/workflows") \/ fileExists(f, ".gitlab-ci.yml")
        \/ fileExists(f, ".circleci/config.yml")

auditCICD(f) ==
    CategoryScore(<<
        Check(hasCIConfig(f), "CI configuration found", "No CI configuration detected"),
        Check(searchInDirectory(f, ".github/workflows", "hasTestsInCI"), "Tests run in CI",
              "No test execution in CI detected"),
        Check(searchInDirectory(f, ".github/workflows", "hasLintingInCI"), "Linting in CI",
              "No linting in CI detected"),
        Check(searchInDirectory(f, ".github/workflows", "hasBuildInCI"),
              "Build verification in CI", "No build verification in CI detected"),
        Check(searchInFiles(f, "hasRollback"), "Rollback strategy documented",
              "No rollback strategy documented") >>)

hasDependencyScan(f) ==
    fileExists(f, "package-lock.json") \/ fileExists(f, "pnpm-lock.yaml")
        \/ searchInDirectory(f, ".github/workflows", "hasDependencyScan")

auditSecurity(f) ==
    CategoryScore(<<
        Check(searchCodebase(f, "hasInputValidation"), "Input validation patterns found",
              "No input validation detected"),
        Check(searchCodebase(f, "hasRateLimit"), "Rate limiting found",
              "No rate limiting detected"),
        Check(searchCodebase(f, "hasCORS"), "CORS configuration found",
              "No CORS configuration detected"),
        Check(searchCodebase(f, "hasCSP"), "CSP headers found", "No CSP headers detected"),
        Check(hasDependencyScan(f), "Dependency scanning available",
              "No dependency scanning detected") >>)

auditTesting(f) ==
    CategoryScore(<<
        Check(searchForFiles(f, "hasTests"), "Test files found", "No test files detected"),
        Check(searchInFiles(f, "hasTestFramework"), "Test framework configured",
              "No test framework detected"),
        Check(searchCodebase(f, "hasIntegrationTests"), "Integration/E2E tests found",
              "No integration tests detected"),
        Check(searchInFiles(f, "hasCoverage"), "Code coverage tooling found",
              "No coverage tooling detected"),
        Check(searchCodebase(f, "hasSmokeTests"), "Smoke tests found",
              "No smoke tests detected") >>)

\* the scan of line 591 is the fact hasRateLimitOrQuota: its patterns differ
\* from those of line 484
auditPerformance(f) ==
    CategoryScore(<<
        Check(searchCodebase(f, "hasRateLimitOrQuota"), "Rate limiting found",
              "No rate limiting detected"),
        Check(searchCodebase(f, "hasResourceLimits"), "Resource limits configured",
              "No resource limits detected"),
        Check(searchCodebase(f, "hasCaching"), "Caching mechanisms found",
              "No caching detected"),
        Check(searchCodebase(f, "hasPerfBudgets"), "Performance budgets found",
              "No performance budgets detected"),
        Check(searchCodebase(f, "hasCostControls"), "Cost control mechanisms found",
              "No cost controls detected") >>)

hasAPIDocs(f) == searchForFiles(f, "hasAPIFiles") \/ searchCodebase(f, "hasAPIDocs")

auditDocumentation(f) ==
    CategoryScore(<<
        Check(fileExists(f, "README.md"), "README.md exists", "No README.md found"),
        Check(fileContains(f, "README.md", "hasSetup"), "Setup instructions in README",
              "No setup instructions in README"),
        Check(searchForFiles(f, "hasRunbook"), "Runbook/operations guide found",
              "No runbook found"),
        Check(searchInFiles(f, "hasIncidentProc"), "Incident procedures documented",
              "No incident procedures found"),
        Check(hasAPIDocs(f), "API documentation found", "No API documentation detected") >>)

\* Object.values / Object.entries of results.categories: the order of the keys
CategoryNames ==
    << "identityAccessControl", "secretsConfig", "dataSafety", "reliability",
       "observability", "cicd", "security", "testing", "performance", "documentation" >>

\* results.categories: lines 81-92
Categories(f, fl) ==
    [identityAccessControl |-> auditIdentityAccessControl(f),
     secretsConfig |-> auditSecretsConfig(f),
     dataSafety |-> auditDataSafety(f, fl.handlesPII),
     reliability |-> auditReliability(f),
     observability |-> auditObservability(f),
     cicd |-> auditCICD(f),
     security |-> auditSecurity(f),
     testing |-> auditTesting(f),
     performance |-> auditPerformance(f),
     documentation |-> auditDocumentation(f)]

RECURSIVE TotalTo(_, _)
\* Object.values(results.categories).reduce((sum, cat) => sum + cat.score, 0)
TotalTo(cats, n) == IF n = 0 THEN 0 ELSE TotalTo(cats, n - 1) + cats[CategoryNames[n]].score

\* the placeholder findings of performRuntimeCheck, when a URL is given
performRuntimeCheck(fl) ==
    IF fl.deploymentUrl
    THEN << "UNVERIFIED - Runtime check requires HTTP client (fetch/axios)",
            "Implement actual HTTP checks for: status, response time, headers, auth behavior" >>
    ELSE << >>

\* the boundary of the public beta range moved up by one
classifyReadinessAbove(score) ==
    IF score > 43 THEN "Public Beta Ready"
    ELSE IF score >= 36 THEN "Employee Pilot Ready (with conditions)"
    ELSE IF score >= 26 THEN "Dev Preview"
    ELSE "Prototype"

classifyReadiness(score) ==
    IF score >= 43 THEN "Public Beta Ready"
    ELSE IF score >= 36 THEN "Employee Pilot Ready (with conditions)"
    ELSE IF score >= 26 THEN "Dev Preview"
    ELSE "Prototype"

\* the findings and blockers whose text includes CRITICAL
CriticalTexts ==
    { "CRITICAL: Potential hardcoded credentials detected",
      "CRITICAL: Potential committed secrets found",
      "CRITICAL: Handles PII but no protection patterns found",
      "CRITICAL: Handles PII but data safety score is low",
      "CRITICAL: Handles payments but security score is low" }

\* f.includes('CRITICAL')
IncludesCritical(text) == text \in CriticalTexts

RECURSIVE CriticalFindings(_, _)
\* lines 750-752: the critical findings of the first n categories, in order
CriticalFindings(cats, n) ==
    IF n = 0 THEN << >>
    ELSE LET fs == cats[CategoryNames[n]].findings
         IN  CriticalFindings(cats, n - 1)
                \o Pick(fs, { i \in 1..Len(fs) : IncludesCritical(fs[i]) }, 1)

\* lines 750-770
criticalBlockers(cats, fl) ==
    CriticalFindings(cats, Len(CategoryNames))
        \o (IF fl.handlesPII /\ cats.dataSafety.score < 4
            THEN << "CRITICAL: Handles PII but data safety score is low" >> ELSE << >>)
        \o (IF fl.handlesPayments /\ cats.security.score < 4
            THEN << "CRITICAL: Handles payments but security score is low" >> ELSE << >>)

\* lines 754-756: the categories listed as public launch blockers
publicLaunchBlockers(cats) ==
    Pick(CategoryNames, { i \in 1..Len(CategoryNames) : cats[CategoryNames[i]].score <= 2 }, 1)

\* lines 758-760 and 774: the categories of the top improvements
topImprovements(cats) ==
    Slice(Pick(CategoryNames,
               { i \in 1..Len(CategoryNames) : cats[CategoryNames[i]].score < 4 }, 1), 5)

\* line 784
safeForEmployees(total, blockers) == total >= 30 /\ Len(blockers) = 0

\* lines 787-790
safeForCustomers(cats, total, blockers) ==
    /\ total >= 43
    /\ Len(blockers) = 0
    /\ cats.security.score >= 4
    /\ cats.dataSafety.score >= 4

\* lines 793-798: the categories that would break first
wouldBreakFirst(cats) ==
    LET weak == publicLaunchBlockers(cats)
    IN  IF Len(weak) > 0 THEN weak
        ELSE << "System appears relatively stable, but stress testing recommended" >>

\* lines 801-809
securityConcerns(cats, blockers) ==
    LET concerns ==
            blockers
              \o (IF cats.security.score < 3 THEN << "Low security hardening score" >> ELSE << >>)
              \o (IF cats.identityAccessControl.score < 3
                  THEN << "Weak identity & access control" >> ELSE << >>)
    IN  IF Len(concerns) = 0
        THEN << "No major security concerns identified, but thorough security audit recommended" >>
        ELSE concerns

\* ProductionReadinessAuditor.audit: the results it returns
audit(f, fl) ==
    LET cats == Categories(f, fl)
        total == TotalTo(cats, Len(CategoryNames))
        blockers == criticalBlockers(cats, fl)
    IN  [categories |-> cats,
         runtimeCheck |-> performRuntimeCheck(fl),
         totalScore |-> total,
         maxScore |-> 50,
         readinessLevel |-> classifyReadiness(total),
         criticalBlockers |-> blockers,
         publicLaunchBlockers |-> publicLaunchBlockers(cats),
         topImprovements |-> topImprovements(cats),
         executiveSummary |->
            [safeForEmployees |-> safeForEmployees(total, blockers),
             safeForCustomers |-> safeForCustomers(cats, total, blockers),
             wouldBreakFirst |-> wouldBreakFirst(cats),
             securityConcerns |-> securityConcerns(cats, blockers)]]

\* the path of the report inside the audited repository: line 1155
ReportPath == "PRODUCTION_READINESS_AUDIT.md"

\* const results = await auditor.audit(): line 1149
AuditRun ==
    /\ apc = "start"
    /\ results' = audit(facts, flags)
    /\ apc' = "audited"
    /\ UNCHANGED <<clusterVars, mainVars, facts, flags, written, auditExit, previous>>

\* what the keyword scans over *.md find in the text of a report. Section B
\* (lines 1000-1008) prints for every category its reasoning and all its
\* findings, and the scans are grep -i: the reasoning lines 183, 289, 346,
\* 403, 521, 578, 635 carry "Authentication", "RBAC", "storage", "Encryption",
\* "Backup", "Error", "Timeouts", "Structured", "CORS", "Integration",
\* "limits"; the category names of lines 971-982 carry "Privacy", "Error",
\* "Coverage", "Performance", "Cost"; the title of line 963 carries
\* "READINESS"; and of the other checks both the passing and the failing
\* finding carry a pattern of the check's own scan ("retention", "retry",
\* "graceful", "metrics", "alert", "rollback", "CSP", "smoke", "incident").
\* No text of a report matches the patterns of the remaining scans.
ReportFinds ==
    { "hasAuth", "hasRBAC", "hasDataStorage", "hasEncryption", "hasBackup", "hasRetention",
      "hasPIIProtection", "hasErrorHandling", "hasTimeouts", "hasRetries",
      "hasGracefulDegradation", "hasHealthCheck", "hasStructuredLogs", "hasMetrics",
      "hasAlerts", "hasRollback", "hasCORS", "hasCSP", "hasIntegrationTests", "hasCoverage",
      "hasSmokeTests", "hasResourceLimits", "hasPerfBudgets", "hasCostControls",
      "hasIncidentProc" }

\* generateReport and fs.writeFileSync succeed: lines 1150-1157. The report
\* is a *.md file of the audited repository from then on.
WriteReport ==
    /\ apc = "audited"
    /\ written' = TRUE
    /\ facts' = facts \cup {ReportPath} \cup ReportFinds
    /\ apc' = "written"
    /\ UNCHANGED <<clusterVars, mainVars, flags, results, auditExit, previous>>

\* fs.writeFileSync throws (the repository path is missing or read-only)
WriteThrows ==
    /\ apc = "audited"
    /\ apc' = "rejected"
    /\ UNCHANGED <<clusterVars, mainVars, facts, flags, results, written, auditExit, previous>>

\* the exit code follows the public launch blockers
AuditExitOnLaunchBlockers ==
    /\ apc = "written"
    /\ auditExit' = IF Len(results.publicLaunchBlockers) > 0 THEN 1 ELSE 0
    /\ apc' = "exited"
    /\ UNCHANGED <<clusterVars, mainVars, facts, flags, results, written, previous>>

\* process.exit(results.criticalBlockers.length > 0 ? 1 : 0): line 1160
AuditExit ==
    /\ apc = "written"
    /\ auditExit' = IF Len(results.criticalBlockers) > 0 THEN 1 ELSE 0
    /\ apc' = "exited"
    /\ UNCHANGED <<clusterVars, mainVars, facts, flags, results, written, previous>>

\* main().catch(error => ... process.exit(1)): lines 1164-1167
AuditCatch ==
    /\ apc = "rejected"
    /\ auditExit' = 1
    /\ apc' = "fatal"
    /\ UNCHANGED <<clusterVars, mainVars, facts, flags, results, written, previous>>

\* the command is run once more on the repository, with the same flags and
\* nothing else changed in between: a new process, lines 1104-1148
AuditAgain ==
    /\ apc = "exited"
    /\ previous' = results
    /\ results' = [totalScore |-> 0]
    /\ written' = FALSE
    /\ auditExit' = 0
    /\ apc' = "start"
    /\ UNCHANGED <<clusterVars, mainVars, facts, flags>>

NextAudit ==
    \/ AuditRun
    \/ WriteReport
    \/ WriteThrows
    \/ AuditExit
    \/ AuditCatch
    \/ AuditAgain

\* the facts each category is the first to scan, in the order of the categories
FactGroups ==
    << {"hasAuth", "hasRBAC", "hasHardcodedCreds", ".env", ".env.example", "BASIC_AUTH",
        "hasLeastPrivilege"},
       {".gitignore", "hasEnvInGitignore", "hasCommittedSecrets", "README.md", "hasConfigDocs"},
       {"hasDataStorage", "hasEncryption", "hasBackup", "hasRetention", "hasPIIProtection"},
       {"hasErrorHandling", "hasTimeouts", "hasRetries", "hasGracefulDegradation",
        "hasHealthCheck"},
       {"hasLogging", "hasStructuredLogs", "hasErrorTracking", "hasMetrics", "hasAlerts"},
       {".github/workflows", ".gitlab-ci.yml", ".circleci/config.yml", "hasTestsInCI",
        "hasLintingInCI", "hasBuildInCI", "hasRollback"},
       {"hasInputValidation", "hasRateLimit", "hasCORS", "hasCSP", "package-lock.json",
        "pnpm-lock.yaml", "hasDependencyScan"},
       {"hasTests", "hasTestFramework", "hasIntegrationTests", "hasCoverage", "hasSmokeTests"},
       {"hasRateLimitOrQuota", "hasResourceLimits", "hasCaching", "hasPerfBudgets",
        "hasCostControls"},
       {"hasSetup", "hasRunbook", "hasIncidentProc", "hasAPIFiles", "hasAPIDocs"} >>

\* the facts that lower a score
Secrets == {"hasHardcodedCreds", "hasCommittedSecrets"}

\* a repository where the first n categories find everything they look for
Good(n) == UNION { FactGroups[i] : i \in 1..n } \ Secrets

Bases == {Secrets} \cup { Good(n) : n \in 0..Len(FactGroups) }

\* the repositories audited: a base with the facts of one category set freely
Repos ==
    UNION { { (b \ FactGroups[c]) \cup sub : b \in Bases, sub \in SUBSET FactGroups[c] } :
            c \in 1..Len(FactGroups) }

\* the command lines: every use of --handles-pii and --handles-payments, and
\* one with --deployment-url
FlagSets ==
    { [handlesPII |-> p, handlesPayments |-> q, deploymentUrl |-> FALSE] : p, q \in BOOLEAN }
        \cup { [handlesPII |-> FALSE, handlesPayments |-> FALSE, deploymentUrl |-> TRUE] }

----------------------------------------------------------------------------
(* Initial states *)

Empty == [ r \in Runs |-> << >> ]

InitLocals ==
    /\ minted = {}
    /\ relevant = Empty
    /\ ups = Empty
    /\ seeds = Empty
    /\ hits = Empty
    /\ topics = Empty
    /\ ret = Empty
    /\ alone = [ r \in Runs |-> FALSE ]
    /\ fault = [ r \in Runs |-> "none" ]
    /\ mpc = "cluster"
    /\ flows = << >>
    /\ exitCode = 0
    /\ cur = 0
    /\ log = << >>
    /\ threw = "none"

\* no run of the audit came before
NoResults == [totalScore |-> -1]

\* the audit script is not running
AuditOff ==
    /\ facts = {}
    /\ flags = [handlesPII |-> FALSE, handlesPayments |-> FALSE, deploymentUrl |-> FALSE]
    /\ apc = "off"
    /\ results = [totalScore |-> 0]
    /\ written = FALSE
    /\ auditExit = 0
    /\ previous = NoResults

\* records a persisted index holds when the process starts
PriorStores ==
    { << >>,
      << Record("1", embed(TB), [role |-> "assistant", text |-> TB]) >>,
      << Record("9", embed(TA), [role |-> "user", text |-> TA]),
         Record("2", embed(TAB), [role |-> "user", text |-> TAB]) >> }

\* the inputs of the pipeline with failures
InputsMain == SeqsUpTo(Msgs, MaxLenMain) \cup {Scenario}

\* the indexes the pipeline with failures starts on: an empty and a persisted one
MainStores ==
    { << >>, << Record("1", embed(TB), [role |-> "assistant", text |-> TB]) >> }

\* one call of cluster, as main makes it
InitOne(inputs, stores) ==
    /\ InitLocals
    /\ AuditOff
    /\ store \in stores
    /\ \E msgs \in inputs : messages = [ r \in Runs |-> IF r = 1 THEN msgs ELSE << >> ]
    /\ pc = [ r \in Runs |-> IF r = 1 THEN "idle" ELSE "absent" ]

Init == InitOne(Inputs, PriorStores)

Spec == Init /\ [][Next]_vars

\* two calls of cluster in one process
MsgsTwo ==
    { Msg(Undefined, "user", TA, NoText),
      Msg("1", "user", TA, NoText),
      Msg("2", "assistant", TB, NoText),
      Msg("2", "tool", TA, NoText) }

\* a list with a tool message between two messages that are ingested
Mixed ==
    << Msg("1", "user", TA, NoText),
       Msg("2", "tool", TA, NoText),
       Msg(Undefined, "assistant", TB, NoText) >>

InputsTwo == SeqsUpTo(MsgsTwo, MaxLenTwo) \cup {Mixed}

InitTwo ==
    /\ InitLocals
    /\ AuditOff
    /\ store = << >>
    /\ messages \in [Runs -> InputsTwo]
    /\ pc = [ r \in Runs |-> "idle" ]

SpecTwo == InitTwo /\ [][Next]_vars

\* long message lists: message e has an empty first line, message t is a tool message
IdTable == <<"1", "2", "3", "4", "5", "6", "7", "8", "9", "10", "11", "12", "13", "14", "15", "16">>

LongInput(n, e, t) ==
    [ i \in 1..n |->
        IF i = e THEN Msg(IdTable[i], "user", TNLA, NoText)
        ELSE IF i = t THEN Msg(IdTable[i], "tool", TA, NoText)
        ELSE Msg(IdTable[i], "user", TA, NoText) ]

LongInputs == { LongInput(n, e, t) : n \in (SeedCap - 1)..MaxLong, e \in {0, 1, 5, SeedCap}, t \in {0, 2, SeedCap + 1} }

InitLong == InitOne(LongInputs, {<< >>})

SpecLong == InitLong /\ [][Next]_vars

\* a line of n characters: a letter, a run of blanks and a letter, which keeps
\* the counts of the embedding small
Chars(n) == [ i \in 1..n |-> IF i \in {1, n} THEN "a" ELSE " " ]

\* texts whose first line is around the title length, alone, before a second
\* line and behind an empty first line
TitleTexts ==
    { TEmpty, TA, TNLA, <<NL>>, <<"a", NL, "b">> }
        \cup { Chars(n) : n \in (MaxText - 4)..MaxText }
        \cup { Chars(n) \o <<NL, "b">> : n \in (MaxText - 4)..MaxText }
        \cup { <<NL>> \o Chars(n) : n \in {MaxText} }

\* one user message with the text in either field, in both or in none, and
\* pairs that start with a message whose first line is empty
TitleInputs ==
    { <<Msg("1", "user", t, NoText)>> : t \in TitleTexts }
        \cup { <<Msg("1", "user", NoText, t)>> : t \in TitleTexts }
        \cup { <<Msg("1", "user", TA, TB)>>, <<Msg("1", "user", TEmpty, TB)>>,
                <<Msg("1", "user", NoText, NoText)>>, <<Msg("1", "assistant", NoText, TB)>> }
        \cup { <<Msg("1", "user", TNLA, NoText), Msg("2", "user", t, NoText)>> : t \in TitleTexts }

InitTitle == InitOne(TitleInputs, {<< >>})

SpecTitle == InitTitle /\ [][Next]_vars

\* the pipeline of main, with operations that can fail
InitMain == InitOne(InputsMain, MainStores)

\* the audit command run on one repository; the pipeline is not running
InitAudit ==
    /\ InitLocals
    /\ store = << >>
    /\ messages = Empty
    /\ pc = [ r \in Runs |-> "absent" ]
    /\ facts \in Repos
    /\ flags \in FlagSets
    /\ apc = "start"
    /\ results = [totalScore |-> 0]
    /\ written = FALSE
    /\ auditExit = 0
    /\ previous = NoResults

SpecAudit == InitAudit /\ [][NextAudit]_vars

\* the rejection handler of line 38 runs once the promise of main is rejected
SpecMain == InitMain /\ [][NextMain]_vars /\ WF_vars(MainCatch)

----------------------------------------------------------------------------
(* What the claims speak of *)

RECURSIVE AllIds(_)
\* the ids of all topics of ts, topic after topic
AllIds(ts) == IF ts = << >> THEN << >> ELSE Head(ts).ids \o AllIds(Tail(ts))

NoRepeat(s) == \A i, j \in 1..Len(s) : i # j => s[i] # s[j]

Occurrences(x, s) == Cardinality({ i \in 1..Len(s) : s[i] = x })

NonTool(msgs) == { i \in 1..Len(msgs) : msgs[i].role # "tool" }

\* the positions of the user messages whose title is not empty
Qualifying(msgs) == { i \in 1..Len(msgs) : msgs[i].role = "user" /\ Title(msgs[i]) # << >> }

Done(r) == pc[r] = "done"

----------------------------------------------------------------------------
\* C1: the topics one call returns hold no id twice, neither inside one topic
\* nor across two topics, whatever the input and the prior contents of the index.
C1_Disjoint == \A r \in Runs : Done(r) => NoRepeat(AllIds(ret[r]))

\* a call has returned two topics whose candidate lists overlapped
C1_Witness ==
    \E r \in Runs :
        /\ Done(r)
        /\ Len(ret[r]) >= 2
        /\ Range(topics[r][1].ids) \cap Range(topics[r][2].ids) # {}
        /\ ret[r][2].ids # << >>

\* C2: the ids over all returned topics number at most the non-tool messages
\* of the input (here: for a call that ran alone on a store that was empty).
C2_CoverageBound ==
    \A r \in Runs :
        Done(r) /\ alone[r] => Len(AllIds(ret[r])) <= Cardinality(NonTool(messages[r]))

\* C3: two runs on the same message list, each alone on an emptied index,
\* return the same topic sequence.
C3_Deterministic ==
    \A r, o \in Runs :
        Done(r) /\ Done(o) /\ alone[r] /\ alone[o] /\ messages[r] = messages[o]
            => ret[r] = ret[o]

\* C4: a call that has issued a query has completed the upsert of every
\* non-tool message of its input, and issues no upsert afterwards.
C4_Barrier ==
    \A r \in Runs :
        hits[r] # << >> => Len(ups[r]) = Cardinality(NonTool(messages[r]))

\* a call has queried after two upserts while the other call is in progress
C4_Witness ==
    \E r \in Runs :
        /\ Len(hits[r]) >= 1
        /\ Len(ups[r]) >= 2
        /\ \E o \in Runs \ {r} : Active(o)

RECURSIVE OwnStore(_)
\* the store that holds the upserts u and nothing else
OwnStore(u) ==
    IF u = << >> THEN << >>
    ELSE LET last == u[Len(u)]
             text == TextOf(last.msg)
         IN  StoreUpsert(OwnStore(SubSeq(u, 1, Len(u) - 1)), last.key, embed(text),
                         [role |-> last.msg.role, text |-> text])

\* the topics call r returns when it runs alone on an empty index
AloneResult(r) ==
    LET own == OwnStore(ups[r])
        found(sd) == StoreQuery(own, embed(sd.title), K)
        cand == [ i \in 1..Len(seeds[r]) |->
                    [title |-> seeds[r][i].title,
                     ids |-> Candidates(seeds[r][i],
                                        [ n \in 1..Len(found(seeds[r][i])) |->
                                            found(seeds[r][i])[n].id ])] ]
    IN  Assign(cand, {})

\* C5: a call returns the topics it would return run alone on an empty index,
\* also when another call runs in the same process.
C5_Isolated == \A r \in Runs : Done(r) => ret[r] = AloneResult(r)

\* C6: run alone on an empty index, an input whose non-tool messages carry
\* unique non-empty ids, with a qualifying user message and at most 50 non-tool
\* messages, gets every non-tool id into exactly one topic; the three-message
\* scenario yields the seeds 1 and 3, two topics, and 1, 2, 3 once each.
C6_Covered ==
    \A r \in Runs :
        LET msgs == messages[r]
            nt == NonTool(msgs)
        IN  /\ ( /\ Done(r) /\ alone[r]
                 /\ \A i \in nt : Truthy(msgs[i].id)
                 /\ \A i, j \in nt : i # j => msgs[i].id # msgs[j].id
                 /\ Qualifying(msgs) # {}
                 /\ Cardinality(nt) <= 50 )
               => \A i \in nt : Occurrences(msgs[i].id, AllIds(ret[r])) = 1
            /\ ( Done(r) /\ alone[r] /\ msgs = Scenario )
               => /\ [ i \in 1..Len(seeds[r]) |-> seeds[r][i].id ] = <<"1", "3">>
                  /\ [ i \in 1..Len(ret[r]) |-> ret[r][i].title ] = <<TFix, TAgain>>
                  /\ \A x \in {"1", "2", "3"} : Occurrences(x, AllIds(ret[r])) = 1
                  /\ ret[r][1].ids[1] = "1"

\* the scenario has run alone on an empty index
C6_Witness == \E r \in Runs : Done(r) /\ alone[r] /\ messages[r] = Scenario

\* C7: a seed whose id is neither the id nor a returned neighbour of an earlier
\* seed gets a topic that starts with its own id.
C7_SelfClaim ==
    \A r \in Runs :
        Done(r) =>
            \A i \in 1..Len(seeds[r]) :
                (\A j \in 1..(i - 1) :
                    /\ seeds[r][j].id # seeds[r][i].id
                    /\ seeds[r][i].id \notin Range(hits[r][j]))
                => /\ ret[r][i].ids # << >>
                   /\ ret[r][i].ids[1] = seeds[r][i].id

\* a second seed claims its own id, of which the index returned other hits first
C7_Witness ==
    \E r \in Runs :
        /\ Done(r)
        /\ Len(seeds[r]) >= 2
        /\ seeds[r][2].id # seeds[r][1].id
        /\ seeds[r][2].id \notin Range(hits[r][1])
        /\ hits[r][2] # << >>
        /\ hits[r][2][1] # seeds[r][2].id

\* the seeds the claims expect: the first 12 qualifying messages, in message order
ExpectedSeeds(msgs) ==
    LET q == Pick(msgs, Qualifying(msgs), 1)
        n == IF Len(q) < 12 THEN Len(q) ELSE 12
    IN  [ i \in 1..n |-> [id |-> q[i].id, title |-> Title(q[i])] ]

\* C8: the seeds are the first min(12, n) of the n qualifying messages (role
\* user, title not empty), in message order; empty titles do not count
\* against the cap.
C8_SeedCap ==
    \A r \in Runs : pc[r] \in {"query", "done"} => seeds[r] = ExpectedSeeds(messages[r])

\* more than 12 qualifying messages, and an empty title among the first 12 user messages
C8_Witness ==
    \E r \in Runs :
        /\ Done(r)
        /\ Cardinality(Qualifying(messages[r])) > 12
        /\ Len(seeds[r]) = 12
        /\ \E i \in 1..12 : messages[r][i].role = "user" /\ Title(messages[r][i]) = << >>

\* C9: one topic per seed, in seed order, with the seed's title; a topic whose
\* candidates were all claimed earlier is returned with no ids.
C9_TopicPerSeed ==
    \A r \in Runs :
        Done(r) =>
            LET exp == ExpectedSeeds(messages[r])
            IN  /\ Len(ret[r]) = Len(exp)
                /\ \A i \in 1..Len(exp) : ret[r][i].title = exp[i].title

\* a returned topic is empty
C9_Witness ==
    \E r \in Runs : Done(r) /\ \E i \in 1..Len(ret[r]) : ret[r][i].ids = << >>

\* C10: no tool message is upserted, no seed comes from a tool message, and on
\* an empty index with ids unique across the input no topic holds a tool
\* message's id.
C10_ToolsExcluded ==
    \A r \in Runs :
        LET msgs == messages[r]
        IN  /\ \A n \in 1..Len(ups[r]) : ups[r][n].msg.role # "tool"
            /\ pc[r] \in {"query", "done"} =>
                  \A n \in 1..Len(seeds[r]) :
                      \E i \in NonTool(msgs) : seeds[r][n] = [id |-> msgs[i].id, title |-> Title(msgs[i])]
            /\ ( /\ Done(r) /\ alone[r]
                 /\ \A i \in 1..Len(msgs) : Truthy(msgs[i].id)
                 /\ \A i, j \in 1..Len(msgs) : i # j => msgs[i].id # msgs[j].id )
               => \A i \in 1..Len(msgs) :
                      msgs[i].role = "tool" => msgs[i].id \notin Range(AllIds(ret[r]))

\* a call alone on an empty index has returned ids for an input with a tool message
C10_Witness ==
    \E r \in Runs :
        /\ Done(r) /\ alone[r]
        /\ \E i \in 1..Len(messages[r]) : messages[r][i].role = "tool" /\ Title(messages[r][i]) # << >>
        /\ \A i \in 1..Len(messages[r]) : Truthy(messages[r][i].id)
        /\ \A i, j \in 1..Len(messages[r]) : i # j => messages[r][i].id # messages[r][j].id
        /\ AllIds(ret[r]) # << >>

\* C11: once an embed, upsert or query step of a run has failed, the run
\* issues no further upsert or query and never yields topics, and main builds
\* no flows and exits with code 1.
C11_FailureAborts ==
    /\ [](\A r \in Runs : fault[r] # "none" => pc[r] = "failed")
    /\ [](fault[1] # "none" => mpc # "flows" /\ flows = << >>
                               /\ (mpc = "exited" => exitCode = 1))
    /\ [][\A r \in Runs : fault[r] # "none" =>
              ups'[r] = ups[r] /\ hits'[r] = hits[r] /\ ret'[r] = ret[r]]_vars
    /\ (fault[1] # "none") ~> (mpc = "exited" /\ exitCode = 1)

\* a query fails after topics were already built, and main has exited
C11_Witness ==
    /\ fault[1] = "query"
    /\ topics[1] # << >>
    /\ ups[1] # << >>
    /\ mpc = "exited"

\* the last non-tool message of msgs that carries the id x
LastWith(msgs, x) ==
    msgs[CHOOSE j \in NonTool(msgs) :
            /\ msgs[j].id = x
            /\ \A k \in NonTool(msgs) : msgs[k].id = x => k <= j]

\* C12: when ingestion is over, the index holds exactly one record for every
\* id carried by a non-tool message, with the embedding and the metadata of
\* the last non-tool message of that id, also when several messages share it.
C12_LastWriteWins ==
    \A r \in Runs :
        pc[r] = "query" =>
            \A i \in NonTool(messages[r]) :
                LET x == messages[r][i].id
                    last == LastWith(messages[r], x)
                    at == { n \in 1..Len(store) : store[n].id = x }
                IN  Truthy(x) =>
                        /\ Cardinality(at) = 1
                        /\ \A n \in at :
                               /\ store[n].vec = embed(TextOf(last))
                               /\ store[n].meta = [role |-> last.role, text |-> TextOf(last)]

\* ingestion is over for an input where two non-tool messages share an id and
\* differ in their embedding
C12_Witness ==
    \E r \in Runs :
        /\ pc[r] = "query"
        /\ \E i, j \in NonTool(messages[r]) :
               /\ i < j
               /\ Truthy(messages[r][i].id)
               /\ messages[r][i].id = messages[r][j].id
               /\ embed(TextOf(messages[r][i])) # embed(TextOf(messages[r][j]))

\* C13: a call with zero messages issues no upsert and no query and returns
\* the empty topic sequence, whatever the index holds.
C13_EmptyInput ==
    \A r \in Runs :
        messages[r] = << >> =>
            /\ ups[r] = << >>
            /\ hits[r] = << >>
            /\ pc[r] # "failed"
            /\ Done(r) => ret[r] = << >>

\* a call with zero messages has returned while the index holds records
C13_Witness == \E r \in Runs : Done(r) /\ messages[r] = << >> /\ store # << >>

----------------------------------------------------------------------------
(* The pipeline of main *)

Kinds(ds) == [ i \in 1..Len(ds) |-> ds[i].kind ]

AllThree == <<"docs", "prompt", "code">>

\* the calls main makes for flow k once its deliverables are appended
FlowCalls(k) ==
    << Called("metric", flows[k].id, << >>),
       Called("write", flows[k].id, flows[k].deliverables),
       Called("zip", flows[k].id, << >>) >>

RECURSIVE FlowLog(_)
\* the calls main makes for the first k flows, flow after flow
FlowLog(k) == IF k = 0 THEN << >> ELSE FlowLog(k - 1) \o FlowCalls(k)

IsPrefix(a, b) == Len(a) <= Len(b) /\ SubSeq(b, 1, Len(a)) = a

\* how many deliverables are appended, and how many of the calls of the flow
\* are made, when main stands before a step of the loop body
Appended(step) ==
    IF step = "docs" THEN 0 ELSE IF step = "prompt" THEN 1 ELSE IF step = "code" THEN 2 ELSE 3

CallsMade(step) == IF step = "write" THEN 1 ELSE IF step = "zip" THEN 2 ELSE 0

Failed == threw # "none" \/ fault[1] # "none"

\* C28: main processes the flows one at a time in flow order; for each flow
\* exactly the three deliverables docs, prompt, code are appended in this
\* order, then its metric is recorded, then its deliverables are written, then
\* it is zipped; zipMaster is called exactly once, after every flow has been
\* zipped, and never when clustering or a step of main fails.
C28_PipelineOrder ==
    /\ mpc \in {"cluster", "flows"} => log = << >>
    /\ \A i \in 1..Len(flows) :
          /\ i < cur => Kinds(flows[i].deliverables) = AllThree
          /\ i > cur => flows[i].deliverables = << >>
    /\ mpc \in {"docs", "prompt", "code", "metric", "write", "zip"} =>
          /\ cur \in 1..Len(flows)
          /\ Kinds(flows[cur].deliverables) = Slice(AllThree, Appended(mpc))
          /\ log = FlowLog(cur - 1) \o Slice(FlowCalls(cur), CallsMade(mpc))
    /\ mpc = "master" => cur = Len(flows) + 1 /\ log = FlowLog(Len(flows))
    /\ mpc = "done" =>
          /\ ~ Failed
          /\ log = FlowLog(Len(flows)) \o << Called("zipMaster", 0, << >>) >>
    /\ mpc \in {"failed", "exited"} =>
          /\ Failed
          /\ IsPrefix(log, FlowLog(IF cur > Len(flows) THEN Len(flows) ELSE cur))
    /\ Failed => \A n \in 1..Len(log) : log[n].op # "zipMaster"
    /\ fault[1] # "none" => log = << >>

\* main has returned after it processed two flows
C28_Witness == mpc = "done" /\ Len(flows) = 2 /\ Len(log) = 7

----------------------------------------------------------------------------
(* The audit *)

\* audit() has returned
Audited == apc \in {"audited", "written", "rejected", "exited", "fatal"}

RECURSIVE SumScores(_, _)
\* the sum of the scores of the categories named in S
SumScores(cats, S) ==
    IF S = {} THEN 0
    ELSE LET c == CHOOSE x \in S : TRUE
         IN  cats[c].score + SumScores(cats, S \ {c})

\* C14: for every repository and every use of the flags each of the ten
\* category scores is an integer from 0 to 5 and totalScore is their sum,
\* hence from 0 to 50.
C14_ScoreRange ==
    Audited =>
        /\ DOMAIN results.categories = Range(CategoryNames)
        /\ Cardinality(Range(CategoryNames)) = 10
        /\ \A c \in Range(CategoryNames) : results.categories[c].score \in 0..5
        /\ results.totalScore = SumScores(results.categories, Range(CategoryNames))
        /\ results.totalScore \in 0..50

\* an audit where every category reaches 5
C14_Witness ==
    /\ Audited
    /\ results.totalScore = 50
    /\ \A c \in Range(CategoryNames) : results.categories[c].score = 5

\* the documented score ranges; 36-42 carries the label the report prints
DocumentedLevel(t) ==
    IF t \in 0..25 THEN "Prototype"
    ELSE IF t \in 26..35 THEN "Dev Preview"
    ELSE IF t \in 36..42 THEN "Employee Pilot Ready (with conditions)"
    ELSE "Public Beta Ready"

\* C15: the readiness level is the one the documented ranges give for the
\* total score, for every total from 0 to 50 and in every audit.
C15_Levels ==
    /\ \A t \in 0..50 : classifyReadiness(t) = DocumentedLevel(t)
    /\ Audited => results.readinessLevel = DocumentedLevel(results.totalScore)

\* an audit whose total is the lowest of the public beta range
C15_Witness ==
    /\ Audited
    /\ results.totalScore = 43
    /\ results.readinessLevel = "Public Beta Ready"

\* C16: safeForEmployees is true only if the total is at least 36 and there
\* is no critical blocker.
C16_SafeForEmployees ==
    Audited /\ results.executiveSummary.safeForEmployees =>
        results.totalScore >= 36 /\ Len(results.criticalBlockers) = 0

\* C17: safeForCustomers is true only if the total is at least 43, there is
\* no critical blocker, security and data safety score at least 4 and CI/CD
\* scores at least 3.
C17_SafeForCustomers ==
    Audited /\ results.executiveSummary.safeForCustomers =>
        /\ results.totalScore >= 43
        /\ Len(results.criticalBlockers) = 0
        /\ results.categories.security.score >= 4
        /\ results.categories.dataSafety.score >= 4
        /\ results.categories.cicd.score >= 3

\* C18: the command exits with 1 when the audit found a critical blocker or
\* crashed and with 0 otherwise, whatever the total and the public launch
\* blockers; an exit that is not a crash comes after the report was written.
C18_ExitCode ==
    /\ apc = "exited" =>
          /\ written /\ ReportPath \in facts
          /\ auditExit = (IF Len(results.criticalBlockers) > 0 THEN 1 ELSE 0)
    /\ apc = "fatal" => auditExit = 1
    /\ apc \notin {"exited", "fatal"} => auditExit = 0

\* the command has exited with 0 although categories are public launch
\* blockers and the total is in the lowest range
C18_Witness ==
    /\ apc = "exited"
    /\ auditExit = 0
    /\ Len(results.publicLaunchBlockers) > 0
    /\ results.totalScore <= 25

\* C19: with --handles-pii each of the three conditions alone gives a critical
\* blocker: no PII protection found, no encryption found, no backup found.
C19_PIIBlockers ==
    Audited /\ flags.handlesPII =>
        \A found \in {"hasPIIProtection", "hasEncryption", "hasBackup"} :
            found \notin facts => Len(results.criticalBlockers) > 0

\* C20: when the security scan finds no input validation or no rate
\* limiting, the result holds a critical blocker and the exit code is not 0,
\* with and without --handles-payments.
C20_SecurityBlockers ==
    Audited /\ ("hasInputValidation" \notin facts \/ "hasRateLimit" \notin facts) =>
        /\ Len(results.criticalBlockers) > 0
        /\ apc = "exited" => auditExit # 0

\* C30: safeForCustomers is true only when publicLaunchBlockers is empty, that
\* is when no category scores 2 or less; and a category is listed as a public
\* launch blocker exactly when its score is below 3.
C30_LaunchBlockersGate ==
    Audited =>
        /\ results.executiveSummary.safeForCustomers =>
              /\ Len(results.publicLaunchBlockers) = 0
              /\ \A c \in Range(CategoryNames) : results.categories[c].score > 2
        /\ \A c \in Range(CategoryNames) :
              c \in Range(results.publicLaunchBlockers)
                  <=> results.categories[c].score < 3

\* C29: a second run of the audit on a repository that is otherwise unchanged
\* gives the same category scores, the same total and the same readiness level
\* as the run before it: the report a run writes into the repository does not
\* change what the scans of a later run find.
C29_Repeatable ==
    Audited /\ previous # NoResults =>
        /\ \A c \in Range(CategoryNames) :
              results.categories[c].score = previous.categories[c].score
        /\ results.totalScore = previous.totalScore
        /\ results.readinessLevel = previous.readinessLevel

----------------------------------------------------------------------------
(* The partition *)

RECURSIVE Members(_, _)
\* the candidates that are not claimed, in candidate order, each one once
Members(cands, claimed) ==
    IF cands = << >> THEN << >>
    ELSE IF Head(cands) \in claimed THEN Members(Tail(cands), claimed)
         ELSE <<Head(cands)>> \o Members(Tail(cands), claimed \cup {Head(cands)})

RECURSIVE Greedy(_, _, _, _)
\* the one-pass algorithm from seed n on: the seed's id and then the
\* neighbours the index returned for it, less the claimed ids, which the
\* members then join
Greedy(sds, found, n, claimed) ==
    IF n > Len(sds) THEN << >>
    ELSE LET members == Members(<<sds[n].id>> \o found[n], claimed)
         IN  <<[title |-> sds[n].title, ids |-> members]>>
                 \o Greedy(sds, found, n + 1, claimed \cup Range(members))

\* C21: the topics a call returns are those of the one-pass greedy algorithm
\* fed with the same seeds and the same query results: same titles, same ids,
\* same order.
C21_OnePass ==
    \A r \in Runs : Done(r) => ret[r] = Greedy(seeds[r], hits[r], 1, {})

\* a call has returned two topics or more and the filter took ids out of the
\* second one
C21_Witness ==
    \E r \in Runs :
        /\ Done(r)
        /\ Len(ret[r]) >= 2
        /\ ret[r][2].ids # topics[r][2].ids
        /\ ret[r][2].ids # << >>

\* C22: in every state of a call the id lists of the topics built so far
\* hold no id twice.
C22_DisjointByConstruction ==
    \A r \in Runs : NoRepeat(AllIds(topics[r]))

RECURSIVE IdsOf(_, _)
\* the ids of the first n records of a query result, in order
IdsOf(found, n) == IF n = 0 THEN << >> ELSE Append(IdsOf(found, n - 1), found[n].id)

\* C23: a call queries the index once per seed, in seed order, with the
\* embedding of the seed's title and k = 50, one query after the other, and
\* issues no upsert once its first query is out.
C23_QueryPerSeed ==
    /\ [](\A r \in Runs :
            /\ Len(hits[r]) <= Len(ExpectedSeeds(messages[r]))
            /\ Done(r) => Len(hits[r]) = Len(ExpectedSeeds(messages[r])))
    /\ [][\A r \in Runs :
            /\ ups'[r] # ups[r] => pc[r] = "ingest" /\ hits[r] = << >> /\ hits'[r] = << >>
            /\ hits'[r] # hits[r] =>
                  LET n == Len(hits[r]) + 1
                      sd == ExpectedSeeds(messages[r])[n]
                      found == StoreQuery(store, embed(sd.title), 50)
                  IN  /\ pc[r] = "query"
                      /\ hits'[r] = Append(hits[r], IdsOf(found, Len(found)))]_vars

\* a call has returned after two queries whose results differ
C23_Witness ==
    \E r \in Runs :
        /\ Done(r)
        /\ Len(hits[r]) >= 2
        /\ hits[r][1] # hits[r][2]
        /\ Len(hits[r][1]) >= 2

\* the ids of the records the index holds
StoredIds == { store[n].id : n \in 1..Len(store) }

\* C27: when a call returns with at most 50 records in the index and every
\* seed's id is a present id stored there, the first topic holds every stored
\* id and every later topic is empty.
C27_FirstTopicTakesAll ==
    [][\A r \in Runs :
          (/\ pc[r] = "query" /\ pc'[r] = "done"
           /\ Len(store) <= 50
           /\ seeds[r] # << >>
           /\ \A n \in 1..Len(seeds[r]) :
                  Truthy(seeds[r][n].id) /\ seeds[r][n].id \in StoredIds)
          => /\ Range(ret'[r][1].ids) = StoredIds
             /\ \A n \in 2..Len(ret'[r]) : ret'[r][n].ids = << >>]_vars

\* a call with two seeds of stored ids has returned: all in the first topic,
\* nothing in the second
C27_Witness ==
    \E r \in Runs :
        /\ Done(r)
        /\ Len(seeds[r]) = 2
        /\ \A n \in 1..2 : Truthy(seeds[r][n].id)
        /\ seeds[r][1].id # seeds[r][2].id
        /\ Len(ret[r][1].ids) >= 2
        /\ ret[r][2].ids = << >>

----------------------------------------------------------------------------
(* Texts and titles *)

\* the part of t before its first newline, cut to 80 characters
ExpectedTitle(t) ==
    LET nls == { i \in 1..Len(t) : t[i] = NL }
        line == IF nls = {} THEN Len(t) ELSE Min(nls) - 1
    IN  SubSeq(t, 1, IF line < 80 THEN line ELSE 80)

\* the positions of the user messages that give a seed
Seeding(msgs) ==
    { i \in 1..Len(msgs) : msgs[i].role = "user" /\ ExpectedTitle(TextOf(msgs[i])) # << >> }

\* C24: the seeds are the user messages whose first line is not empty, in
\* order, each with its first line cut to 80 characters as title; a message
\* with an empty first line gives no seed and no topic whatever follows it.
C24_Titles ==
    \A r \in Runs :
        pc[r] \in {"query", "done"} =>
            LET from == Pick(messages[r], Seeding(messages[r]), 1)
            IN  /\ Len(seeds[r]) = Len(from)
                /\ \A n \in 1..Len(from) :
                       /\ seeds[r][n].title = ExpectedTitle(TextOf(from[n]))
                       /\ seeds[r][n].id = from[n].id
                       /\ seeds[r][n].title # << >>
                       /\ Len(seeds[r][n].title) <= 80
                /\ Done(r) => Len(ret[r]) = Len(from)

\* a call has returned one topic for two user messages: the first has an
\* empty first line before a non-empty one, the second a first line of more
\* than 80 characters
C24_Witness ==
    \E r \in Runs :
        /\ Done(r)
        /\ Len(messages[r]) = 2
        /\ messages[r][1].text = TNLA
        /\ Len(FirstLine(messages[r][2].text)) > 80
        /\ Len(ret[r]) = 1
        /\ Len(ret[r][1].title) = 80

\* a field that holds a string
Populated(x) == x # NoText

\* the text of a message: its text field if populated, else its content
\* field if populated, else the empty text
Normalized(m) ==
    CASE Populated(m.text) -> m.text
      [] ~ Populated(m.text) /\ Populated(m.content) -> m.content
      [] OTHER -> << >>

\* C25: every ingested message is stored with the embedding and the metadata
\* text of its normalized text, and a seed's title is derived from the same
\* text: from content when only content is populated, from the empty text
\* when neither field is.
C25_OneText ==
    \A r \in Runs :
        /\ pc[r] \in {"ingest", "query"} =>
              \A n \in 1..Len(ups[r]) :
                  LET m == ups[r][n].msg
                  IN  \E k \in 1..Len(store) :
                          /\ store[k].id = ups[r][n].key
                          /\ store[k].vec = embed(Normalized(m))
                          /\ store[k].meta = [role |-> m.role, text |-> Normalized(m)]
        /\ pc[r] \in {"query", "done"} =>
              LET users == Pick(messages[r],
                                { i \in 1..Len(messages[r]) : messages[r][i].role = "user" }, 1)
                  titled == Pick(users, { i \in 1..Len(users) :
                                            ExpectedTitle(Normalized(users[i])) # << >> }, 1)
              IN  /\ Len(seeds[r]) = Len(titled)
                  /\ \A n \in 1..Len(titled) :
                         seeds[r][n].title = ExpectedTitle(Normalized(titled[n]))

\* a message with only content populated was stored and seeded from its content
C25_Witness ==
    \E r \in Runs :
        /\ pc[r] = "query"
        /\ Len(messages[r]) = 1
        /\ ~ Populated(messages[r][1].text)
        /\ Len(messages[r][1].content) > 80
        /\ Len(seeds[r]) = 1
        /\ Len(store) = 1
        /\ store[1].meta.text = messages[r][1].content

\* C26: every id in a topic a call returns is the id of a non-tool message
\* of the call's input, also when input messages carry no id; stated for a
\* call that starts on an empty index and runs alone.
C26_IdsResolve ==
    \A r \in Runs :
        Done(r) /\ alone[r] =>
            \A n \in 1..Len(AllIds(ret[r])) :
                \E i \in NonTool(messages[r]) : messages[r][i].id = AllIds(ret[r])[n]

====
